---- MODULE Spec2Model ----
(***************************************************************************)
(* The CSV -> PostgreSQL merge engine of spotify-uris: staging load, merge  *)
(* planning (sql_templates.py), execution with statistics inside one       *)
(* transaction (stats/dry_run_stats.py), and the operator's commit or      *)
(* rollback (load_csv_engine.py).                                          *)
(*                                                                         *)
(* Representation.  A scalar SQL value is a string, SQL NULL is NULL.  The   *)
(* artist_spotify_uris text is a sequence of tokens ("{", "}", "," or an   *)
(* identifier), so that trim/string_to_array/unnest are computed, and a    *)
(* NULL text is NullText.  A surrogate id is an opaque token derived from  *)
(* the row's spotify_uri (the column is UNIQUE and the engine never        *)
(* rewrites or deletes it), which removes the renaming symmetry of serial  *)
(* ids; joins still go through the id columns.                             *)
(***************************************************************************)
EXTENDS Integers, Sequences, FiniteSets, TLC

NULL == "NULL"
NullText == <<NULL>>

(* Longest artist list a batch row carries. *)
MaxLen == 2

Runs == {"A", "B"}
Other(r) == IF r = "A" THEN "B" ELSE "A"

-----------------------------------------------------------------------------
(* Text functions of the generated SQL *)

RECURSIVE JoinComma(_)
JoinComma(items) ==
    IF items = <<>> THEN <<>>
    ELSE IF Len(items) = 1 THEN <<items[1]>>
    ELSE <<items[1], ",">> \o JoinComma(Tail(items))

(* '{' + ','.join(items) + '}' ; an empty identifier contributes no token *)
PgArrayText(items) ==
    <<"{">> \o SelectSeq(JoinComma(items), LAMBDA c : c # "") \o <<"}">>

IsBrace(c) == c \in {"{", "}"}

RECURSIVE LTrim(_)
LTrim(t) == IF t # <<>> /\ IsBrace(Head(t)) THEN LTrim(Tail(t)) ELSE t

RECURSIVE RTrim(_)
RTrim(t) ==
    IF t # <<>> /\ IsBrace(t[Len(t)]) THEN RTrim(SubSeq(t, 1, Len(t) - 1)) ELSE t

(* trim(both '{}' from t) *)
TrimBraces(t) == RTrim(LTrim(t))

RECURSIVE SplitComma(_, _)
SplitComma(t, cur) ==
    IF t = <<>> THEN <<cur>>
    ELSE IF Head(t) = "," THEN <<cur>> \o SplitComma(Tail(t), "")
    ELSE SplitComma(Tail(t), cur \o Head(t))

(* string_to_array(t, ','): the empty string gives the empty array *)
StringToArray(t) == IF t = <<>> THEN <<>> ELSE SplitComma(t, "")

(* unnest(arr) beside generate_series(1, array_length(arr, 1)) *)
ArtistPos(text) ==
    LET arr == StringToArray(TrimBraces(text))
    IN  {[artist_uri |-> arr[i], pos |-> i] : i \in 1..Len(arr)}

(* s.artist_spotify_uris IS NOT NULL AND s.artist_spotify_uris != '' *)
HasArtistText(s) ==
    s["artist_spotify_uris"] # NullText /\ s["artist_spotify_uris"] # <<>>

(* a = b in SQL: never true when a side is NULL *)
SqlEq(a, b) == a # NULL /\ b # NULL /\ a = b

-----------------------------------------------------------------------------
(* Canonical tables *)

EntityTables == {"artists", "albums", "tracks"}
AssocTables == {"album_artists", "track_artists"}

AssocTable(entity) == IF entity = "albums" THEN "album_artists" ELSE "track_artists"

NewId(uri) == "#" \o uri

Row(uri, name, album_id, source, ts) ==
    [id |-> NewId(uri), spotify_uri |-> uri, name |-> name, album_id |-> album_id,
     source_name |-> source, ingested_at |-> ts]

Link(eid, aid, pos) == [entity_id |-> eid, artist_id |-> aid, position |-> pos]

(* result of one conn.execute(sql): the tables after it, or an exception *)
Ok(t) == [ok |-> TRUE, t |-> t]
Raise(t) == [ok |-> FALSE, t |-> t]

-----------------------------------------------------------------------------
(* Policy resolution and the SET clause *)

ColumnModes == {"prefer_incoming", "prefer_non_null", "prefer_longer"}
AssocModes == {"prefer_incoming", "extend", "prefer_non_null"}

(* policy.get(key, default) *)
Get(d, key, default) == IF key \in DOMAIN d THEN d[key] ELSE default

HasEntityPolicy(entity, policy) == entity \in DOMAIN policy

(* get_policy: the entity's entries for the columns of this CSV *)
get_policy(entity, cols, policy) ==
    [c \in (DOMAIN policy[entity]) \cap cols |-> policy[entity][c]]

(* The mode build_set uses for a column of the CSV *)
ColumnMode(pol, col) == Get(pol, col, "prefer_incoming")

(* build_set: target column -> mode of the part emitted for it.  A mode    *)
(* outside the three branches emits no part; album_id has two branches.    *)
build_set(entity, cols, policy) ==
    LET pol == get_policy(entity, cols, policy)
        upd == {c \in {"name", "spotify_uri"} \cap cols : ColumnMode(pol, c) \in ColumnModes}
        alb == IF /\ entity = "tracks"
                  /\ "album_spotify_uri" \in cols
                  /\ ColumnMode(pol, "album_spotify_uri") \in {"prefer_incoming", "prefer_non_null"}
               THEN {"album_id"} ELSE {}
    IN  [c \in upd \cup alb |->
            IF c = "album_id" THEN ColumnMode(pol, "album_spotify_uri") ELSE ColumnMode(pol, c)]

(* Variant of the SET parts that never stores a null over a value *)
ResolveCoalesce(mode, old, new) == IF new # NULL THEN new ELSE old

(* Variant of the SET parts that stores the incoming value under any mode *)
ResolveIncoming(mode, old, new) == new

(* One emitted part: the value the column has after DO UPDATE *)
Resolve(mode, old, new) ==
    CASE mode = "prefer_incoming" -> new
      [] mode = "prefer_non_null" -> IF old # NULL THEN old ELSE new
      [] mode = "prefer_longer" ->
            IF new # NULL /\ old # NULL /\ Len(new) > Len(old) THEN new ELSE old
      [] OTHER -> old

-----------------------------------------------------------------------------
(* The generated statements, as functions of the staging rows and tables *)

(* Variant of the artists placeholder statement that rebuilds the artists  *)
(* table from the batch's references                                       *)
MissingArtistsRebuild(stg, t, source, ts) ==
    LET uris == UNION {{ap.artist_uri : ap \in ArtistPos(s["artist_spotify_uris"])} :
                          s \in {x \in stg : HasArtistText(x)}}
    IN  Ok([t EXCEPT !["artists"] =
               {Row(u, NULL, NULL, source, ts) : u \in uris \ {NULL, ""}}])

(* generate_missing_artists_sql *)
MissingArtists(stg, t, source, ts) ==
    LET uris == UNION {{ap.artist_uri : ap \in ArtistPos(s["artist_spotify_uris"])} :
                          s \in {x \in stg : HasArtistText(x)}}
        new == {u \in uris : /\ u # NULL
                             /\ u # ""
                             /\ ~\E ex \in t["artists"] : SqlEq(ex.spotify_uri, u)}
    IN  Ok([t EXCEPT !["artists"] = @ \cup {Row(u, NULL, NULL, source, ts) : u \in new}])

(* Variant of the albums placeholder statement without the anti-join on   *)
(* the albums table                                                        *)
MissingAlbumsUnfiltered(stg, t, source, ts) ==
    LET new == {s["album_spotify_uri"] : s \in
                   {x \in stg : x["album_spotify_uri"] # NULL /\ x["album_spotify_uri"] # ""}}
    IN  Ok([t EXCEPT !["albums"] = @ \cup {Row(u, NULL, NULL, source, ts) : u \in new}])

(* generate_missing_albums_sql *)
MissingAlbums(stg, t, source, ts) ==
    LET new == {s["album_spotify_uri"] : s \in
                   {x \in stg : /\ x["album_spotify_uri"] # NULL
                                /\ x["album_spotify_uri"] # ""
                                /\ ~\E ex \in t["albums"] :
                                       SqlEq(ex.spotify_uri, x["album_spotify_uri"])}}
    IN  Ok([t EXCEPT !["albums"] = @ \cup {Row(u, NULL, NULL, source, ts) : u \in new}])

(* al.id of LEFT JOIN albums al ON al.spotify_uri = s.album_spotify_uri *)
JoinedAlbumId(s, t) ==
    LET m == {al \in t["albums"] : SqlEq(al.spotify_uri, s["album_spotify_uri"])}
    IN  IF m = {} THEN NULL ELSE (CHOOSE al \in m : TRUE).id

(* Variant of the upsert's WHERE clause that lets every staged row through *)
CandidatesAll(stg) == stg

(* WHERE (s.spotify_uri IS NOT NULL): the staged rows the upsert selects *)
Candidates(stg) == {s \in stg : s["spotify_uri"] # NULL}

(* Variant of the SET clause without the provenance parts *)
StampNothing(m, source, ts) == m

(* source_name='<source>', ingested_at='<timestamp>' at the end of the SET *)
(* clause                                                                  *)
Stamp(m, source, ts) == [m EXCEPT !.source_name = source, !.ingested_at = ts]

(* generate_entity_upsert: INSERT ... SELECT DISTINCT ... ON CONFLICT       *)
(* (spotify_uri) DO UPDATE SET <set>, source_name, ingested_at             *)
Upsert(entity, cols, set, stg, t, source, ts) ==
    LET cand == Candidates(stg)
        albumId(s) == IF entity = "tracks" /\ "album_spotify_uri" \in cols
                      THEN JoinedAlbumId(s, t) ELSE NULL
        excluded(s) == Row(s["spotify_uri"],
                           IF "name" \in cols THEN s["name"] ELSE NULL,
                           albumId(s), source, ts)
        hit(s) == {m \in t[entity] : SqlEq(m.spotify_uri, s["spotify_uri"])}
        updated(m, ex) ==
            Stamp([m EXCEPT !.name = IF "name" \in DOMAIN set
                                     THEN Resolve(set["name"], m.name, ex.name) ELSE @,
                            !.spotify_uri = IF "spotify_uri" \in DOMAIN set
                                            THEN Resolve(set["spotify_uri"], m.spotify_uri,
                                                         ex.spotify_uri)
                                            ELSE @,
                            !.album_id = IF "album_id" \in DOMAIN set
                                         THEN Resolve(set["album_id"], m.album_id, ex.album_id)
                                         ELSE @],
                  source, ts)
        inserted == {excluded(s) : s \in {x \in cand : hit(x) = {}}}
        changed == {m \in t[entity] : \E s \in cand : m \in hit(s)}
        after(m) == updated(m, excluded(CHOOSE s \in cand : m \in hit(s)))
        twice == \E s1, s2 \in cand : s1 # s2 /\ s1["spotify_uri"] = s2["spotify_uri"]
    IN  IF twice THEN Raise(t)
        ELSE Ok([t EXCEPT ![entity] =
                    (@ \ changed) \cup {after(m) : m \in changed} \cup inserted])

(* FROM staging s JOIN entity e ... CROSS JOIN LATERAL artist_pos JOIN artists ar *)
StagedLinks(entity, stg, t) ==
    UNION {UNION {UNION {{[e |-> e.id, a |-> ar.id, pos |-> ap.pos] :
                            ar \in {x \in t["artists"] : SqlEq(x.spotify_uri, ap.artist_uri)}} :
                         ap \in ArtistPos(s["artist_spotify_uris"])} :
                  e \in {x \in t[entity] : SqlEq(x.spotify_uri, s["spotify_uri"])}} :
           s \in {x \in stg : HasArtistText(x)}}

(* INSERT INTO <association table>: the primary key is (entity, artist) *)
InsertLinks(t, at, rows) ==
    LET clash == \/ \E r1, r2 \in rows :
                       r1 # r2 /\ r1.entity_id = r2.entity_id /\ r1.artist_id = r2.artist_id
                 \/ \E r1 \in rows, r2 \in t[at] :
                       r1.entity_id = r2.entity_id /\ r1.artist_id = r2.artist_id
    IN  IF clash THEN Raise(t) ELSE Ok([t EXCEPT ![at] = @ \cup rows])

(* Variant of the 'prefer_incoming' statement without its DELETE *)
AssocPreferIncomingKeepsOld(entity, stg, t) ==
    InsertLinks(t, AssocTable(entity),
                {Link(j.e, j.a, j.pos - 1) : j \in StagedLinks(entity, stg, t)})

(* Variant of the 'prefer_incoming' statement whose DELETE has no WHERE *)
AssocPreferIncomingDeletesAll(entity, stg, t) ==
    LET at == AssocTable(entity)
        deleted == [t EXCEPT ![at] = {}]
        rows == {Link(j.e, j.a, j.pos - 1) : j \in StagedLinks(entity, stg, deleted)}
    IN  InsertLinks(deleted, at, rows)

(* association_policy == 'prefer_incoming': DELETE, then INSERT *)
AssocPreferIncoming(entity, stg, t) ==
    LET at == AssocTable(entity)
        touched == {e.id : e \in {x \in t[entity] :
                        \E s \in stg : HasArtistText(s) /\ SqlEq(x.spotify_uri, s["spotify_uri"])}}
        deleted == [t EXCEPT ![at] = {l \in @ : l.entity_id \notin touched}]
        rows == {Link(j.e, j.a, j.pos - 1) : j \in StagedLinks(entity, stg, deleted)}
    IN  InsertLinks(deleted, at, rows)

(* Variant of the 'extend' statement that numbers by index in the list *)
AssocExtendByIndex(entity, stg, t) ==
    LET at == AssocTable(entity)
        fresh == {j \in StagedLinks(entity, stg, t) :
                     ~\E l \in t[at] : l.entity_id = j.e /\ l.artist_id = j.a}
        mine(e) == {l.position : l \in {x \in t[at] : x.entity_id = e}}
        maxPos(e) == IF mine(e) = {} THEN -1
                     ELSE CHOOSE p \in mine(e) : \A q \in mine(e) : q <= p
    IN  InsertLinks(t, at, {Link(j.e, j.a, maxPos(j.e) + j.pos) : j \in fresh})

(* Variant of the 'extend' statement that does not look at the positions  *)
(* in use                                                                  *)
AssocExtendFromZero(entity, stg, t) ==
    LET at == AssocTable(entity)
        fresh == {j \in StagedLinks(entity, stg, t) :
                     ~\E l \in t[at] : l.entity_id = j.e /\ l.artist_id = j.a}
    IN  InsertLinks(t, at, {Link(j.e, j.a, j.pos - 1) : j \in fresh})

(* association_policy == 'extend' *)
AssocExtend(entity, stg, t) ==
    LET at == AssocTable(entity)
        fresh == {j \in StagedLinks(entity, stg, t) :
                     ~\E l \in t[at] : l.entity_id = j.e /\ l.artist_id = j.a}
        mine(e) == {l.position : l \in {x \in t[at] : x.entity_id = e}}
        maxPos(e) == IF mine(e) = {} THEN -1
                     ELSE CHOOSE p \in mine(e) : \A q \in mine(e) : q <= p
        rowNumber(j) == Cardinality({k \in fresh : k.e = j.e /\ k.pos <= j.pos})
        rows == {Link(j.e, j.a, maxPos(j.e) + rowNumber(j)) : j \in fresh}
    IN  InsertLinks(t, at, rows)

(* Variant of the 'prefer_non_null' statement whose NOT EXISTS is not     *)
(* correlated with the owning entity                                       *)
AssocPreferNonNullGlobal(entity, stg, t) ==
    LET at == AssocTable(entity)
        fresh == {j \in StagedLinks(entity, stg, t) : t[at] = {}}
    IN  InsertLinks(t, at, {Link(j.e, j.a, j.pos - 1) : j \in fresh})

(* association_policy == 'prefer_non_null' *)
AssocPreferNonNull(entity, stg, t) ==
    LET at == AssocTable(entity)
        fresh == {j \in StagedLinks(entity, stg, t) :
                     ~\E l \in t[at] : l.entity_id = j.e}
        rows == {Link(j.e, j.a, j.pos - 1) : j \in fresh}
    IN  InsertLinks(t, at, rows)

(* _generate_artist_associations: the statement text chosen by the policy *)
Associations(mode, entity, stg, t) ==
    CASE mode = "prefer_incoming" -> AssocPreferIncoming(entity, stg, t)
      [] mode = "extend" -> AssocExtend(entity, stg, t)
      [] mode = "prefer_non_null" -> AssocPreferNonNull(entity, stg, t)

-----------------------------------------------------------------------------
(* Planning: generate_merge_function / merge_func *)

HasArtistColumn(entity, cols) ==
    entity \in {"albums", "tracks"} /\ "artist_spotify_uris" \in cols

HasAlbumColumn(entity, cols) ==
    entity = "tracks" /\ "album_spotify_uri" \in cols

Op(kind, arg) == [op |-> kind, arg |-> arg]

(* The ValueErrors raised while the statement texts are generated *)
UpsertConfigError(entity, cols, policy) ==
    \/ ~HasEntityPolicy(entity, policy)
    \/ "spotify_uri" \notin cols

AssocConfigError(entity, cols, policy) ==
    /\ HasArtistColumn(entity, cols)
    /\ \/ ~HasEntityPolicy(entity, policy)
       \/ "artists" \notin DOMAIN policy[entity]
       \/ policy[entity]["artists"] \notin AssocModes

(* Variant of merge_func that appends the upsert before the placeholder    *)
(* statements                                                              *)
merge_func_upsert_first(entity, cols, policy) ==
    IF UpsertConfigError(entity, cols, policy) \/ AssocConfigError(entity, cols, policy)
    THEN [ok |-> FALSE, sql |-> <<>>]
    ELSE [ok |-> TRUE,
          sql |-> <<Op("upsert", build_set(entity, cols, policy))>>
               \o (IF HasAlbumColumn(entity, cols) THEN <<Op("missing_albums", NULL)>> ELSE <<>>)
               \o (IF HasArtistColumn(entity, cols) THEN <<Op("missing_artists", NULL)>> ELSE <<>>)
               \o (IF HasArtistColumn(entity, cols)
                   THEN <<Op("associations", policy[entity]["artists"])>> ELSE <<>>)]

merge_func(entity, cols, policy) ==
    IF UpsertConfigError(entity, cols, policy) \/ AssocConfigError(entity, cols, policy)
    THEN [ok |-> FALSE, sql |-> <<>>]
    ELSE [ok |-> TRUE,
          sql |-> (IF HasAlbumColumn(entity, cols) THEN <<Op("missing_albums", NULL)>> ELSE <<>>)
               \o (IF HasArtistColumn(entity, cols) THEN <<Op("missing_artists", NULL)>> ELSE <<>>)
               \o <<Op("upsert", build_set(entity, cols, policy))>>
               \o (IF HasArtistColumn(entity, cols)
                   THEN <<Op("associations", policy[entity]["artists"])>> ELSE <<>>)]

(* conn.execute(sql) for one planned statement *)
Execute(stmt, entity, cols, stg, t, source, ts) ==
    CASE stmt.op = "missing_albums" -> MissingAlbums(stg, t, source, ts)
      [] stmt.op = "missing_artists" -> MissingArtists(stg, t, source, ts)
      [] stmt.op = "upsert" -> Upsert(entity, cols, stmt.arg, stg, t, source, ts)
      [] stmt.op = "associations" -> Associations(stmt.arg, entity, stg, t)

-----------------------------------------------------------------------------
(* Statistics: stats/column_changes.py, stats/association_changes.py,      *)
(* stats/dry_run_stats.py                                                  *)

(* staging s JOIN entity m ON m.spotify_uri = s.spotify_uri *)
StagingJoinMain(entity, stg, t) ==
    {p \in stg \X t[entity] : SqlEq(p[2].spotify_uri, p[1]["spotify_uri"])}

(* analyze_column_changes for one column under one policy type *)
ColumnChangeCount(entity, cols, col, mode, stg, t) ==
    LET joined == StagingJoinMain(entity, stg, t)
    IN  IF col = "album_spotify_uri" /\ entity = "tracks"
        THEN CASE mode = "prefer_incoming" ->
                    Cardinality({p \in joined : p[2].album_id # JoinedAlbumId(p[1], t)})
               [] mode = "prefer_non_null" ->
                    Cardinality({p \in joined :
                        p[2].album_id = NULL /\ JoinedAlbumId(p[1], t) # NULL})
               [] OTHER -> 0
        ELSE CASE mode = "prefer_incoming" ->
                    Cardinality({p \in joined : p[1][col] # p[2][col]})
               [] mode = "prefer_non_null" ->
                    Cardinality({p \in joined : p[2][col] = NULL /\ p[1][col] # NULL})
               [] OTHER -> 0

(* analyze_column_changes_with_comparison: current_changes *)
ColumnChanges(entity, cols, policy, stg, t) ==
    LET tracked == {c \in cols \ {"artists", "artist_spotify_uris"} :
                       /\ c \in DOMAIN policy[entity]
                       /\ policy[entity][c] \in {"prefer_non_null", "prefer_incoming"}}
    IN  [c \in tracked |-> ColumnChangeCount(entity, cols, c, policy[entity][c], stg, t)]

(* current_assocs_query *)
CurrentAssocs(entity, stg, t) ==
    UNION {UNION {{<<s["spotify_uri"], ar.spotify_uri>> :
                      ar \in {x \in t["artists"] :
                                \E l \in t[AssocTable(entity)] :
                                    l.entity_id = e.id /\ l.artist_id = x.id}} :
                  e \in {x \in t[entity] : SqlEq(x.spotify_uri, s["spotify_uri"])}} :
           s \in stg}

(* new_assocs_query *)
NewAssocs(stg) ==
    UNION {{<<s["spotify_uri"], ap.artist_uri>> :
               ap \in {x \in ArtistPos(s["artist_spotify_uris"]) :
                          x.artist_uri # NULL /\ x.artist_uri # ""}} :
           s \in {x \in stg : HasArtistText(x)}}

(* analyze_association_changes *)
AssociationChanges(entity, mode, stg, t) ==
    LET cur == CurrentAssocs(entity, stg, t)
        new == NewAssocs(stg)
        to_delete == IF mode \in {"extend", "prefer_non_null"} THEN {} ELSE cur \ new
        to_insert == CASE mode = "extend" -> new \ cur
                       [] mode = "prefer_non_null" -> IF cur # {} THEN {} ELSE new
                       [] OTHER -> new \ cur
        recreated == CASE mode = "extend" -> cur \cap new
                       [] mode = "prefer_non_null" -> IF cur # {} THEN cur ELSE {}
                       [] OTHER -> cur \cap new
    IN  [table_name |-> AssocTable(entity),
         current_associations |-> Cardinality(t[AssocTable(entity)]),
         new_associations |-> Cardinality(to_insert),
         recreated_associations |-> Cardinality(recreated),
         deleted_associations |-> Cardinality(to_delete),
         entities_with_changes |-> Cardinality({p[1] : p \in to_delete \cup to_insert})]

(* analyze_association_changes_with_comparison: current_changes (a list) *)
AssociationStats(entity, cols, policy, stg, t) ==
    IF HasArtistColumn(entity, cols) /\ policy[entity]["artists"] \in AssocModes
    THEN <<AssociationChanges(entity, policy[entity]["artists"], stg, t)>>
    ELSE <<>>

(* _capture_table_counts *)
TableCounts(entity, t) ==
    LET names == {entity}
                 \cup (IF entity \in {"albums", "tracks"}
                       THEN {AssocTable(entity), "artists"} ELSE {})
                 \cup (IF entity = "tracks" THEN {"albums"} ELSE {})
    IN  [n \in names |-> Cardinality(t[n])]

(* _calculate_changes *)
CalculateChanges(before, after) == [n \in DOMAIN before |-> after[n] - before[n]]

(* _capture_initial_state *)
InitialStats(entity, cols, policy, stg, t) ==
    [staging_rows |-> Cardinality(stg),
     main_rows |-> Cardinality(t[entity]),
     column_changes |-> ColumnChanges(entity, cols, policy, stg, t),
     association_stats |-> AssociationStats(entity, cols, policy, stg, t)]

(* _analyze_side_effects: one entry per table whose row count grew *)
AnalyzeSideEffects(entity, changes) ==
    {[entity_type |-> n, new_entities |-> changes[n]] :
        n \in {x \in {"artists"} \cup (IF entity = "tracks" THEN {"albums"} ELSE {}) :
                  Get(changes, x, 0) > 0}}

(* _capture_final_state, with stats['changes'] *)
FinalStats(entity, initial, before, t) ==
    LET new_rows == TableCounts(entity, t)[entity] - initial.main_rows
        changes == CalculateChanges(before, TableCounts(entity, t))
    IN  [changes |-> changes,
         new_rows |-> new_rows,
         existing_rows |-> initial.staging_rows - new_rows,
         side_effect_creation |-> AnalyzeSideEffects(entity, changes)]

-----------------------------------------------------------------------------
(* The analyzers that predict a merge without executing it:                *)
(* stats/entity_stats.py, stats/association_stats.py                       *)

(* EntityStatsAnalyzer._count_new_rows: staging LEFT JOIN entity, unmatched *)
CountNewRows(entity, cols, stg, t) ==
    IF "spotify_uri" \notin cols THEN 0
    ELSE Cardinality({s \in stg :
            ~ \E m \in t[entity] : SqlEq(m.spotify_uri, s["spotify_uri"])})

(* EntityStatsAnalyzer._count_existing_rows: staging INNER JOIN entity *)
CountExistingRows(entity, cols, stg, t) ==
    IF "spotify_uri" \notin cols THEN 0
    ELSE Cardinality(StagingJoinMain(entity, stg, t))

(* replace(text, '"', '') *)
ReplaceQuotes(text) == SelectSeq(text, LAMBDA c : c # "\"")

(* artist_splits: the list text is split on ',' as it stands and each     *)
(* element is joined to the artists table                                  *)
ArtistSplits(stg, t) ==
    UNION {{<<s["spotify_uri"], uri>> :
               uri \in {x \in {StringToArray(ReplaceQuotes(s["artist_spotify_uris"]))[i] :
                                  i \in 1..Len(StringToArray(ReplaceQuotes(s["artist_spotify_uris"])))} :
                           \E ar \in t["artists"] : SqlEq(ar.spotify_uri, x)}} :
           s \in {x \in stg : HasArtistText(x)}}

(* potential_count: the (e.id, ar.id) pairs of artist_splits *)
PotentialPairs(entity, stg, t) ==
    UNION {{<<p[1].id, p[2].id>> :
               p \in {q \in t[entity] \X t["artists"] :
                         /\ SqlEq(q[1].spotify_uri, sp[1])
                         /\ SqlEq(q[2].spotify_uri, sp[2])}} :
           sp \in ArtistSplits(stg, t)}

(* AssociationStatsAnalyzer._analyze_artist_associations *)
AnalyzeArtistAssociations(entity, stg, t) ==
    LET at == AssocTable(entity)
        owners == {p[2].id : p \in {q \in StagingJoinMain(entity, stg, t) :
                                       HasArtistText(q[1])}}
        potential == IF t[entity] = {} THEN Cardinality(ArtistSplits(stg, t))
                     ELSE Cardinality(PotentialPairs(entity, stg, t))
        recreated == IF t[entity] = {} THEN 0
                     ELSE Cardinality({p \in PotentialPairs(entity, stg, t) :
                              \E l \in t[at] : l.entity_id = p[1] /\ l.artist_id = p[2]})
        deleted == IF t[entity] = {} THEN 0
                   ELSE Cardinality({l \in t[at] : l.entity_id \in owners})
    IN  [table_name |-> at,
         current_associations |-> Cardinality(t[at]),
         potential_associations |-> potential,
         new_associations |-> potential - recreated,
         recreated_associations |-> recreated,
         deleted_associations |-> deleted,
         entities_with_changes |->
             IF t[entity] = {}
             THEN Cardinality({s["spotify_uri"] : s \in {x \in stg :
                                  HasArtistText(x) /\ x["spotify_uri"] # NULL}})
             ELSE Cardinality(owners)]

(* AssociationStatsAnalyzer.analyze_all *)
PredictedAssociationStats(entity, cols, stg, t) ==
    IF HasArtistColumn(entity, cols)
    THEN <<AnalyzeArtistAssociations(entity, stg, t)>>
    ELSE <<>>

-----------------------------------------------------------------------------
(* CSVLoader.load: one run per element of Runs, all on the same database *)

VARIABLES
    pc,       \* pc[r]: where run r is in CSVLoader.load
    cfg,      \* cfg[r]: the loader's constructor arguments and its CSV file
    ctx,      \* ctx[r]: the local variables of load() and of the analyzer
    db,       \* the committed canonical tables
    staging,  \* the committed staging relations, by table name
    tx,       \* the tables as the open merge transaction sees them
    hist      \* hist[r]: what run r staged, read and found at its start

vars == <<pc, cfg, ctx, db, staging, tx, hist>>

(* staging_table = f"staging_{entity}" *)
StagingTable(entity) == "staging_" \o entity

NoTable == [cols |-> {}, rows |-> {}, exists |-> FALSE]

(* Variant of the prompt that treats everything but "n" as a yes *)
ConfirmsByDefault(response) == response # "n"

(* response in ['y', 'yes'] *)
Confirms(response) == response \in {"y", "yes"}

(* What the operator may type, after strip().lower() *)
Responses == {"y", "yes", "n", ""}

(* Variant of the handler that keeps the transaction's work *)
AfterRollbackKeeps(committed, working) == working

(* conn.execute("ROLLBACK"): the connection sees the committed tables again *)
AfterRollback(committed, working) == committed

(* conn.execute("COMMIT"): the transaction's tables become the committed ones *)
AfterCommit(committed, working) == working

(* The pcs at which a run is inside its merge transaction *)
InTx == {"begun", "planned", "executing", "executed"}

(* A run that has read staging_<entity> in its open transaction holds a    *)
(* lock that makes another run's DROP TABLE wait.                          *)
StagingLocked(r) ==
    /\ pc[Other(r)] \in InTx
    /\ cfg[Other(r)].entity = cfg[r].entity

FreshCtx ==
    [before |-> 0, rows_in_staging |-> 0, merge_sql |-> <<>>, i |-> 0,
     stats |-> <<>>, final |-> <<>>, response |-> NULL, error |-> NULL]

FreshHist == [pre |-> <<>>, staged |-> {}, read |-> {}, failed |-> <<>>]

(* lines 147-173: DROP, CREATE, count before, COPY, indexes, conn.commit() *)
Stage(r) ==
    /\ pc[r] = "start"
    /\ ~StagingLocked(r)
    /\ staging' = [staging EXCEPT ![StagingTable(cfg[r].entity)] =
                      [cols |-> cfg[r].cols, rows |-> cfg[r].csv, exists |-> TRUE]]
    /\ ctx' = [ctx EXCEPT ![r].before = Cardinality(db[cfg[r].entity])]
    /\ hist' = [hist EXCEPT ![r].pre = db, ![r].staged = cfg[r].csv]
    /\ pc' = [pc EXCEPT ![r] = "staged"]
    /\ UNCHANGED <<cfg, db, tx>>

(* lines 174-183: count the staging rows, BEGIN.  Two merge transactions   *)
(* that write the same keys are serialized by the database; the model lets *)
(* one merge transaction be open at a time.                                *)
Begin(r) ==
    /\ pc[r] = "staged"
    /\ pc[Other(r)] \notin InTx
    /\ ctx' = [ctx EXCEPT ![r].rows_in_staging =
                  Cardinality(staging[StagingTable(cfg[r].entity)].rows)]
    /\ tx' = db
    /\ pc' = [pc EXCEPT ![r] = "begun"]
    /\ UNCHANGED <<cfg, db, staging, hist>>

(* line 189: merge_sql = merge_func(...); a ValueError goes to the handler *)
(* of lines 212-215                                                        *)
PlanMerge(r) ==
    /\ pc[r] = "begun"
    /\ LET m == merge_func(cfg[r].entity, cfg[r].cols, cfg[r].policy)
       IN  IF m.ok
           THEN /\ ctx' = [ctx EXCEPT ![r].merge_sql = m.sql]
                /\ pc' = [pc EXCEPT ![r] = "planned"]
                /\ tx' = tx
                /\ db' = db
           ELSE /\ ctx' = [ctx EXCEPT ![r].error = "ValueError"]
                /\ pc' = [pc EXCEPT ![r] = "rolledback"]
                /\ tx' = AfterRollback(db, tx)
                /\ db' = AfterRollback(db, tx)
    /\ UNCHANGED <<cfg, staging, hist>>

(* dry_run_stats.py lines 213-219: initial state and before counts *)
CaptureInitial(r) ==
    /\ pc[r] = "planned"
    /\ LET c == cfg[r]
           stg == staging[StagingTable(c.entity)].rows
       IN  ctx' = [ctx EXCEPT
                      ![r].stats = InitialStats(c.entity, c.cols, c.policy, stg, tx)
                                   @@ [before_counts |-> TableCounts(c.entity, tx)],
                      ![r].i = 1]
    /\ pc' = [pc EXCEPT ![r] = "executing"]
    /\ UNCHANGED <<cfg, db, staging, tx, hist>>

(* dry_run_stats.py lines 225-232: conn.execute(sql) for the next          *)
(* statement; an exception goes to the handler of lines 212-215            *)
ExecuteStatement(r) ==
    /\ pc[r] = "executing"
    /\ ctx[r].i <= Len(ctx[r].merge_sql)
    /\ LET c == cfg[r]
           stg == staging[StagingTable(c.entity)].rows
           res == Execute(ctx[r].merge_sql[ctx[r].i], c.entity, c.cols, stg, tx,
                          c.source, c.ts)
       IN  IF res.ok
           THEN /\ tx' = res.t
                /\ db' = db
                /\ ctx' = [ctx EXCEPT ![r].i = @ + 1]
                /\ pc' = pc
                /\ hist' = [hist EXCEPT ![r].read = @ \cup {stg}]
           ELSE /\ tx' = AfterRollback(db, res.t)
                /\ db' = AfterRollback(db, res.t)
                /\ ctx' = [ctx EXCEPT ![r].error = "UniqueViolation"]
                /\ pc' = [pc EXCEPT ![r] = "rolledback"]
                /\ hist' = [hist EXCEPT ![r].read = @ \cup {stg}, ![r].failed = res.t]
    /\ UNCHANGED <<cfg, staging>>

(* conn.execute(sql) raising for a reason outside the tables (connection,  *)
(* lock timeout, resource): the same handler                               *)
StatementError(r) ==
    /\ pc[r] = "executing"
    /\ ctx[r].i <= Len(ctx[r].merge_sql)
    /\ tx' = AfterRollback(db, tx)
    /\ db' = AfterRollback(db, tx)
    /\ ctx' = [ctx EXCEPT ![r].error = "OperationalError"]
    /\ pc' = [pc EXCEPT ![r] = "rolledback"]
    /\ hist' = [hist EXCEPT ![r].failed = tx]
    /\ UNCHANGED <<cfg, staging>>

(* dry_run_stats.py lines 238-257: after counts, changes, final state and  *)
(* the printed report; control returns to load() at input()                *)
CaptureFinal(r) ==
    /\ pc[r] = "executing"
    /\ ctx[r].i > Len(ctx[r].merge_sql)
    /\ ctx' = [ctx EXCEPT ![r].final =
                  FinalStats(cfg[r].entity, ctx[r].stats, ctx[r].stats.before_counts, tx)]
    /\ pc' = [pc EXCEPT ![r] = "executed"]
    /\ UNCHANGED <<cfg, db, staging, tx, hist>>

(* lines 193-210: the operator's answer *)
Respond(r) ==
    /\ pc[r] = "executed"
    /\ \E response \in Responses :
          /\ ctx' = [ctx EXCEPT ![r].response = response]
          /\ IF Confirms(response)
             THEN /\ db' = AfterCommit(db, tx)
                  /\ tx' = AfterCommit(db, tx)
                  /\ pc' = [pc EXCEPT ![r] = "committed"]
             ELSE /\ db' = AfterRollback(db, tx)
                  /\ tx' = AfterRollback(db, tx)
                  /\ pc' = [pc EXCEPT ![r] = "rolledback"]
    /\ UNCHANGED <<cfg, staging, hist>>

RunStep(r) ==
    \/ Stage(r)
    \/ Begin(r)
    \/ PlanMerge(r)
    \/ CaptureInitial(r)
    \/ ExecuteStatement(r)
    \/ StatementError(r)
    \/ CaptureFinal(r)
    \/ Respond(r)

(* The operator starts the loader again on the same CSV after a commit *)
StartNext ==
    /\ pc["B"] = "waiting"
    /\ pc["A"] = "committed"
    /\ pc' = [pc EXCEPT !["B"] = "start"]
    /\ UNCHANGED <<cfg, ctx, db, staging, tx, hist>>

Next == (\E r \in Runs : RunStep(r)) \/ StartNext

NextConc == \E r \in Runs : RunStep(r)

-----------------------------------------------------------------------------
(* Initial databases and batches *)

Tables(artists, albums, tracks, album_artists, track_artists) ==
    [artists |-> artists, albums |-> albums, tracks |-> tracks,
     album_artists |-> album_artists, track_artists |-> track_artists]

TrackCols == {"spotify_uri", "name", "album_spotify_uri", "artist_spotify_uris"}

TrackRow(uri, name, album, text) ==
    [c \in TrackCols |->
        CASE c = "spotify_uri" -> uri
          [] c = "name" -> name
          [] c = "album_spotify_uri" -> album
          [] OTHER -> text]

Config(entity, cols, policy, csv, ts) ==
    [entity |-> entity, cols |-> cols, policy |-> policy, csv |-> csv,
     source |-> "MPD", ts |-> ts]

NoStaging == [n \in {StagingTable(e) : e \in EntityTables} |-> NoTable]

ArtistUris == {"X", "Y", "Z"}

(* Artist lists of a batch row: up to MaxLen identifiers, an identifier    *)
(* may be empty *)
ArtistLists == UNION {[1..k -> ArtistUris \cup {""}] : k \in 0..MaxLen}

ArtistTexts == {PgArrayText(l) : l \in ArtistLists} \cup {NullText, <<>>}

(* Track t1 is in the database, credited to X, to X and Y, or to nobody *)
SeedLinks ==
    {{}, {Link(NewId("t1"), NewId("X"), 0)},
     {Link(NewId("t1"), NewId("X"), 0), Link(NewId("t1"), NewId("Y"), 1)}}

SeedTables(links) ==
    Tables({Row("X", "Xn", NULL, "SEED", "t0")}
             \cup {Row("Y", "Yn", NULL, "SEED", "t0") : l \in {x \in links : x.artist_id = NewId("Y")}},
           {},
           {Row("t1", "Alpha", NULL, "SEED", "t0")},
           {},
           links)

(* The second row of the batch, when it has one *)
SecondRows ==
    {{}, {TrackRow("t2", "Gamma", NULL, PgArrayText(<<"Y">>))},
     {TrackRow("t2", "Gamma", NULL, NullText)},
     {TrackRow(NULL, "Gamma", NULL, PgArrayText(<<"Y">>))}}

TrackPolicy(mode) ==
    [tracks |-> [name |-> "prefer_non_null", spotify_uri |-> "prefer_non_null",
                 album_spotify_uri |-> "prefer_non_null", artists |-> mode]]

Timestamp(r) == "t" \o r

(* A tracks batch merged into a seeded database; run B is the same loader  *)
(* started again on the same file.                                         *)
Init ==
    \E links \in SeedLinks, text \in ArtistTexts, second \in SecondRows, mode \in AssocModes :
        /\ db = SeedTables(links)
        /\ tx = db
        /\ staging = NoStaging
        /\ cfg = [r \in Runs |->
                     Config("tracks", TrackCols, TrackPolicy(mode),
                            {TrackRow("t1", "Beta", "A1", text)} \cup second, Timestamp(r))]
        /\ ctx = [r \in Runs |-> FreshCtx]
        /\ hist = [r \in Runs |-> FreshHist]
        /\ pc = [r \in Runs |-> IF r = "A" THEN "start" ELSE "waiting"]

Spec == Init /\ [][Next]_vars

(* Two loaders started on the same entity type at the same time, each with *)
(* its own file.                                                           *)
InitConc ==
    \E links \in SeedLinks, mode \in AssocModes :
        /\ db = SeedTables(links)
        /\ tx = db
        /\ staging = NoStaging
        /\ cfg = [r \in Runs |->
                     Config("tracks", TrackCols, TrackPolicy(mode),
                            IF r = "A"
                            THEN {TrackRow("t1", "Beta", "A1", PgArrayText(<<"Y">>))}
                            ELSE {TrackRow("t2", "Gamma", NULL, PgArrayText(<<"Z">>))},
                            Timestamp(r))]
        /\ ctx = [r \in Runs |-> FreshCtx]
        /\ hist = [r \in Runs |-> FreshHist]
        /\ pc = [r \in Runs |-> "start"]

SpecConc == InitConc /\ [][NextConc]_vars

ArtistCols == {"spotify_uri", "name"}

ArtistRow(uri, name) ==
    [c \in ArtistCols |-> IF c = "spotify_uri" THEN uri ELSE name]

(* The column policies of an artists batch: a mode for name, or no entry *)
ArtistPolicies ==
    {[artists |-> [name |-> m, spotify_uri |-> "prefer_non_null"]] :
        m \in ColumnModes \cup {"bogus"}}
    \cup {[artists |-> [spotify_uri |-> "prefer_non_null"]]}

(* An artists batch merged into a database that has artist X, named or a   *)
(* placeholder.                                                            *)
InitCols ==
    \E stored \in {NULL, "Alpha"}, incoming \in {NULL, "Beta", "Gamma", "Epsilon"},
       second \in {{}, {ArtistRow("W", "Omega")}}, policy \in ArtistPolicies :
        /\ db = Tables({Row("X", stored, NULL, "SEED", "t0")}, {}, {}, {}, {})
        /\ tx = db
        /\ staging = NoStaging
        /\ cfg = [r \in Runs |->
                     Config("artists", ArtistCols, policy,
                            {ArtistRow("X", incoming)} \cup second, Timestamp(r))]
        /\ ctx = [r \in Runs |-> FreshCtx]
        /\ hist = [r \in Runs |-> FreshHist]
        /\ pc = [r \in Runs |-> IF r = "A" THEN "start" ELSE "waiting"]

SpecCols == InitCols /\ [][Next]_vars

(* The policies a tracks loader may be constructed with: a complete one,   *)
(* none for the entity, none for the association, an unknown association   *)
(* mode, an unknown mode for the name column.                              *)
TrackPolicies ==
    {TrackPolicy(mode) : mode \in AssocModes \cup {"bogus"}}
    \cup {[e \in {} |-> NULL]}
    \cup {[tracks |-> [name |-> "prefer_non_null", spotify_uri |-> "prefer_non_null",
                       album_spotify_uri |-> "prefer_non_null"]]}
    \cup {[tracks |-> [name |-> "bogus", spotify_uri |-> "prefer_non_null",
                       album_spotify_uri |-> "prefer_non_null", artists |-> mode]] :
             mode \in AssocModes}

(* A tracks batch loaded by a loader whose policy may be incomplete or     *)
(* misspelt.                                                               *)
InitCfg ==
    \E links \in SeedLinks, policy \in TrackPolicies,
       list \in {<<"Y">>, <<"Y", "Z">>}, name \in {NULL, "Beta"} :
        /\ db = SeedTables(links)
        /\ tx = db
        /\ staging = NoStaging
        /\ cfg = [r \in Runs |->
                     Config("tracks", TrackCols, policy,
                            {TrackRow("t1", name, "A1", PgArrayText(list))}, Timestamp(r))]
        /\ ctx = [r \in Runs |-> FreshCtx]
        /\ hist = [r \in Runs |-> FreshHist]
        /\ pc = [r \in Runs |-> IF r = "A" THEN "start" ELSE "waiting"]

SpecCfg == InitCfg /\ [][Next]_vars

(* A two-row tracks batch whose rows reference albums A1, A2, the empty    *)
(* identifier or none, merged into a database that has album A1 or no      *)
(* album.                                                                  *)
InitRefs ==
    \E albums \in {{}, {Row("A1", "Aone", NULL, "SEED", "t0")}},
       first \in {"A1", "A2", "", NULL}, second \in {"A1", "A2", NULL},
       mode \in AssocModes :
        /\ db = Tables({Row("X", "Xn", NULL, "SEED", "t0")}, albums,
                       {Row("t1", "Alpha", NULL, "SEED", "t0")}, {}, {})
        /\ tx = db
        /\ staging = NoStaging
        /\ cfg = [r \in Runs |->
                     Config("tracks", TrackCols, TrackPolicy(mode),
                            {TrackRow("t1", "Beta", first, PgArrayText(<<"X">>)),
                             TrackRow("t2", "Gamma", second, PgArrayText(<<"X">>))},
                            Timestamp(r))]
        /\ ctx = [r \in Runs |-> FreshCtx]
        /\ hist = [r \in Runs |-> FreshHist]
        /\ pc = [r \in Runs |-> IF r = "A" THEN "start" ELSE "waiting"]

SpecRefs == InitRefs /\ [][Next]_vars

(* Two loaders run one after the other on track t1, each with its own      *)
(* artist list and its own association policy.                             *)
InitMix ==
    \E links \in SeedLinks, text \in ArtistTexts,
       later \in {<<"Z", "X">>, <<"Y">>}, modeA \in AssocModes, modeB \in AssocModes :
        /\ db = SeedTables(links)
        /\ tx = db
        /\ staging = NoStaging
        /\ cfg = [r \in Runs |->
                     IF r = "A"
                     THEN Config("tracks", TrackCols, TrackPolicy(modeA),
                                 {TrackRow("t1", "Beta", "A1", text)}, Timestamp(r))
                     ELSE Config("tracks", TrackCols, TrackPolicy(modeB),
                                 {TrackRow("t1", "Beta", "A1", PgArrayText(later))},
                                 Timestamp(r))]
        /\ ctx = [r \in Runs |-> FreshCtx]
        /\ hist = [r \in Runs |-> FreshHist]
        /\ pc = [r \in Runs |-> IF r = "A" THEN "start" ELSE "waiting"]

SpecMix == InitMix /\ [][Next]_vars

(* A one-row batch for any entity type, with or without an album reference *)
(* column and an artist list column.                                       *)
InitPlan ==
    \E entity \in EntityTables, extra \in SUBSET {"album_spotify_uri", "artist_spotify_uris"},
       mode \in AssocModes, name \in {NULL, "Beta"} :
        LET cols == {"spotify_uri", "name"} \cup extra
            row == [c \in cols |->
                       CASE c = "spotify_uri" -> "e1"
                         [] c = "name" -> name
                         [] c = "album_spotify_uri" -> "A1"
                         [] OTHER -> PgArrayText(<<"X", "Y">>)]
            policy == [e \in {entity} |->
                          IF entity = "tracks"
                          THEN [name |-> "prefer_non_null", spotify_uri |-> "prefer_non_null",
                                album_spotify_uri |-> "prefer_non_null", artists |-> mode]
                          ELSE [name |-> "prefer_non_null", spotify_uri |-> "prefer_non_null",
                                artists |-> mode]]
        IN  /\ db = Tables({Row("X", "Xn", NULL, "SEED", "t0")}, {}, {}, {}, {})
            /\ tx = db
            /\ staging = NoStaging
            /\ cfg = [r \in Runs |-> Config(entity, cols, policy, {row}, Timestamp(r))]
            /\ ctx = [r \in Runs |-> FreshCtx]
            /\ hist = [r \in Runs |-> FreshHist]
            /\ pc = [r \in Runs |-> IF r = "A" THEN "start" ELSE "waiting"]

SpecPlan == InitPlan /\ [][Next]_vars

(* A tracks batch about track t1 merged into a database that also has      *)
(* track t3 with its album and its artists, and an album credit.           *)
InitFrame ==
    \E links \in SeedLinks, text \in ArtistTexts, second \in SecondRows,
       album \in {"A1", "A2"}, mode \in AssocModes :
        /\ db = Tables({Row("X", "Xn", NULL, "SEED", "t0"), Row("Y", "Yn", NULL, "SEED", "t0")},
                       {Row("A1", "Aone", NULL, "SEED", "t0")},
                       {Row("t1", "Alpha", NULL, "SEED", "t0"),
                        Row("t3", "Other", NewId("A1"), "SEED", "t0")},
                       {Link(NewId("A1"), NewId("X"), 0)},
                       links \cup {Link(NewId("t3"), NewId("X"), 0),
                                   Link(NewId("t3"), NewId("Y"), 1)})
        /\ tx = db
        /\ staging = NoStaging
        /\ cfg = [r \in Runs |->
                     Config("tracks", TrackCols, TrackPolicy(mode),
                            {TrackRow("t1", "Beta", album, text)} \cup second, Timestamp(r))]
        /\ ctx = [r \in Runs |-> FreshCtx]
        /\ hist = [r \in Runs |-> FreshHist]
        /\ pc = [r \in Runs |-> IF r = "A" THEN "start" ELSE "waiting"]

SpecFrame == InitFrame /\ [][Next]_vars

-----------------------------------------------------------------------------
(* Properties.  While a run is inside its merge transaction, db holds the  *)
(* tables as they were before the run's merge and tx the tables after the  *)
(* statements executed so far.                                             *)

(* Every planned statement of run r has executed without an exception *)
Finished(r) ==
    /\ pc[r] \in {"executing", "executed"}
    /\ ctx[r].merge_sql # <<>>
    /\ ctx[r].i > Len(ctx[r].merge_sql)

AssocMode(r) == cfg[r].policy[cfg[r].entity]["artists"]

LinksOf(t, entity, eid) == {l \in t[AssocTable(entity)] : l.entity_id = eid}

HasRow(t, table, uri) == \E m \in t[table] : m.spotify_uri = uri

IdOf(t, table, uri) == (CHOOSE m \in t[table] : m.spotify_uri = uri).id

(* The artist list a batch row was written from *)
IsListText(text) == text # NullText /\ text # <<>>

ListOf(text) == CHOOSE l \in ArtistLists : PgArrayText(l) = text

(* The rows of a batch that name an owning entity and carry an artist list *)
ListedRows(r) ==
    {s \in cfg[r].csv : s["spotify_uri"] # NULL /\ IsListText(s["artist_spotify_uris"])}

(* The list's artists, each at its 0-based index in the list *)
IncomingLinks(t, eid, list) ==
    {Link(eid, IdOf(t, "artists", list[i]), i - 1) :
        i \in {j \in 1..Len(list) : list[j] # ""}}

MaxPosition(links) ==
    IF links = {} THEN -1
    ELSE (CHOOSE l \in links : \A k \in links : k.position <= l.position).position

(* C1: under replace ('prefer_incoming' on the association), once the      *)
(* merge has executed, every owning entity of the batch with a non-empty   *)
(* artist list has exactly the incoming artists, each at its 0-based index *)
(* in the list; nothing else it had before is left.                        *)
C1_ReplaceExact ==
    \A r \in Runs :
        (Finished(r) /\ AssocMode(r) = "prefer_incoming") =>
            \A s \in ListedRows(r) :
                ListOf(s["artist_spotify_uris"]) # <<>> =>
                    LET eid == IdOf(tx, cfg[r].entity, s["spotify_uri"])
                    IN  LinksOf(tx, cfg[r].entity, eid)
                          = IncomingLinks(tx, eid, ListOf(s["artist_spotify_uris"]))

C1_Witness ==
    /\ Finished("A")
    /\ AssocMode("A") = "prefer_incoming"
    /\ LinksOf(db, "tracks", NewId("t1")) = {Link(NewId("t1"), NewId("X"), 0)}
    /\ \E s \in cfg["A"].csv :
          s["spotify_uri"] = "t1" /\ s["artist_spotify_uris"] = PgArrayText(<<"Y", "Z">>)
    /\ LinksOf(tx, "tracks", NewId("t1"))
         = {Link(NewId("t1"), NewId("Y"), 0), Link(NewId("t1"), NewId("Z"), 1)}

(* C2: under extend, once the merge has executed, every association that   *)
(* existed is still there at its position; an owning entity of the batch   *)
(* gains exactly the listed artists it did not have, the k-th of them (in  *)
(* list order, k from 1) at its former maximum position (-1 when it had    *)
(* none) + k; every other entity's associations are unchanged.             *)
C2_ExtendAppends ==
    \A r \in Runs :
        (Finished(r) /\ AssocMode(r) = "extend") =>
            /\ db[AssocTable(cfg[r].entity)] \subseteq tx[AssocTable(cfg[r].entity)]
            /\ \A e \in tx[cfg[r].entity] :
                  LET before == LinksOf(db, cfg[r].entity, e.id)
                      after == LinksOf(tx, cfg[r].entity, e.id)
                      rows == {s \in ListedRows(r) : s["spotify_uri"] = e.spotify_uri}
                  IN  IF rows = {} THEN after = before
                      ELSE LET list == ListOf((CHOOSE s \in rows : TRUE)["artist_spotify_uris"])
                               had == {l.artist_id : l \in before}
                               added == SelectSeq(list, LAMBDA u :
                                           u # "" /\ IdOf(tx, "artists", u) \notin had)
                           IN  after \ before =
                                 {Link(e.id, IdOf(tx, "artists", added[k]),
                                       MaxPosition(before) + k) : k \in 1..Len(added)}

C2_Witness ==
    /\ Finished("A")
    /\ AssocMode("A") = "extend"
    /\ LinksOf(db, "tracks", NewId("t1")) = {Link(NewId("t1"), NewId("X"), 0)}
    /\ \E s \in cfg["A"].csv :
          s["spotify_uri"] = "t1" /\ s["artist_spotify_uris"] = PgArrayText(<<"Y", "Z">>)
    /\ LinksOf(tx, "tracks", NewId("t1"))
         = {Link(NewId("t1"), NewId("X"), 0), Link(NewId("t1"), NewId("Y"), 1),
            Link(NewId("t1"), NewId("Z"), 2)}

(* C3: under prefer_non_null on the association, once the merge has        *)
(* executed, an owning entity that had an association keeps its set as it  *)
(* was, whatever the batch lists for it, and an entity that had none has   *)
(* exactly the artists the batch lists for it, each at its 0-based index.  *)
C3_PreferNonNullPerEntity ==
    \A r \in Runs :
        (Finished(r) /\ AssocMode(r) = "prefer_non_null") =>
            \A e \in tx[cfg[r].entity] :
                LET before == LinksOf(db, cfg[r].entity, e.id)
                    after == LinksOf(tx, cfg[r].entity, e.id)
                    rows == {s \in ListedRows(r) : s["spotify_uri"] = e.spotify_uri}
                IN  IF before # {} \/ rows = {} THEN after = before
                    ELSE after = IncomingLinks(tx, e.id,
                                    ListOf((CHOOSE s \in rows : TRUE)["artist_spotify_uris"]))

C3_Witness ==
    /\ Finished("A")
    /\ AssocMode("A") = "prefer_non_null"
    /\ LinksOf(db, "tracks", NewId("t1")) = {Link(NewId("t1"), NewId("X"), 0)}
    /\ \E s \in cfg["A"].csv :
          s["spotify_uri"] = "t1" /\ s["artist_spotify_uris"] = PgArrayText(<<"Y", "Z">>)
    /\ LinksOf(tx, "tracks", NewId("t1")) = {Link(NewId("t1"), NewId("X"), 0)}
    /\ ~HasRow(db, "tracks", "t2")
    /\ LinksOf(tx, "tracks", NewId("t2")) = {Link(NewId("t2"), NewId("Y"), 0)}

HasDuplicate(list) ==
    \E i, j \in 1..Len(list) : i < j /\ list[i] = list[j] /\ list[i] # ""

FirstIndex(list, u) ==
    CHOOSE i \in 1..Len(list) : list[i] = u /\ \A j \in 1..(i - 1) : list[j] # u

(* C4: when a batch row's artist list names an artist more than once, the  *)
(* reconciliation statement does not fail, and once the merge has executed *)
(* the entity has a single association with that artist, under replace at  *)
(* the position of the first occurrence.                                   *)
C4_DuplicatesCollapse ==
    \A r \in Runs :
        \A s \in ListedRows(r) :
            LET list == ListOf(s["artist_spotify_uris"])
            IN  HasDuplicate(list) =>
                  /\ ctx[r].error # "UniqueViolation"
                  /\ Finished(r) =>
                        \A i \in 1..Len(list) :
                            list[i] # "" =>
                              LET eid == IdOf(tx, cfg[r].entity, s["spotify_uri"])
                                  aid == IdOf(tx, "artists", list[i])
                                  mine == {l \in LinksOf(tx, cfg[r].entity, eid) :
                                              l.artist_id = aid}
                              IN  /\ Cardinality(mine) = 1
                                  /\ AssocMode(r) = "prefer_incoming" =>
                                        mine = {Link(eid, aid, FirstIndex(list, list[i]) - 1)}

(* C5: when a run ends on an exception of its merge, the committed tables  *)
(* and the tables its connection sees are those found at the run's start.  *)
C5_FailureLeavesNoEffect ==
    \A r \in Runs :
        (pc[r] = "rolledback" /\ ctx[r].error # NULL) =>
            db = hist[r].pre /\ tx = hist[r].pre

C5_Witness ==
    /\ pc["A"] = "rolledback"
    /\ ctx["A"].error = "UniqueViolation"
    /\ HasRow(hist["A"].failed, "albums", "A1") /\ ~HasRow(db, "albums", "A1")
    /\ HasRow(hist["A"].failed, "artists", "Z") /\ ~HasRow(db, "artists", "Z")
    /\ \E m \in hist["A"].failed["tracks"] : m.source_name = "MPD"
    /\ Link(NewId("t1"), NewId("X"), 0) \notin hist["A"].failed["track_artists"]
    /\ Link(NewId("t1"), NewId("X"), 0) \in db["track_artists"]

(* C6: when the operator declines, the committed tables are those found at *)
(* the run's start, and the staging relation still exists and holds the    *)
(* rows the run staged, as many as it counted.                             *)
C6_DeclineRestores ==
    \A r \in Runs :
        (pc[r] = "rolledback" /\ ctx[r].error = NULL) =>
            /\ db = hist[r].pre /\ tx = hist[r].pre
            /\ \A n \in DOMAIN db : Cardinality(db[n]) = Cardinality(hist[r].pre[n])
            /\ staging[StagingTable(cfg[r].entity)].exists
            /\ staging[StagingTable(cfg[r].entity)].rows = hist[r].staged
            /\ Cardinality(staging[StagingTable(cfg[r].entity)].rows) = ctx[r].rows_in_staging

C6_Witness ==
    /\ pc["A"] = "rolledback"
    /\ ctx["A"].error = NULL
    /\ ctx["A"].response = "n"
    /\ ctx["A"].final.new_rows = 1
    /\ Cardinality(db["tracks"]) = 1
    /\ Cardinality(staging[StagingTable("tracks")].rows) = 2

Lifecycle ==
    {<<"waiting", "start">>, <<"start", "staged">>, <<"staged", "begun">>,
     <<"begun", "planned">>, <<"begun", "rolledback">>, <<"planned", "executing">>,
     <<"executing", "executed">>, <<"executing", "rolledback">>,
     <<"executed", "committed">>, <<"executed", "rolledback">>}

(* C7: a run moves staged, planned, executed, then committed or rolled     *)
(* back and stays there; the committed tables change only when a run whose *)
(* statements all executed without exception is answered "y" or "yes";     *)
(* any other answer and any exception end the run rolled back.             *)
C7_Lifecycle ==
    [][\A r \in Runs :
          /\ pc'[r] # pc[r] => <<pc[r], pc'[r]>> \in Lifecycle
          /\ pc[r] = "executed" =>
                ctx[r].error = NULL /\ ctx[r].i > Len(ctx[r].merge_sql)
          /\ (pc'[r] = "committed" /\ pc[r] # "committed") =>
                (pc[r] = "executed" /\ ctx'[r].response \in {"y", "yes"})
          /\ (pc[r] = "executed" /\ pc'[r] # pc[r] /\ ctx'[r].response \notin {"y", "yes"}) =>
                (pc'[r] = "rolledback" /\ db' = db)
          /\ (ctx[r].error = NULL /\ ctx'[r].error # NULL) =>
                (pc'[r] = "rolledback" /\ db' = db)
          /\ (db' # db /\ pc[Other(r)] \notin InTx) =>
                (pc[r] = "executed" /\ pc'[r] = "committed")
      ]_vars

C7_Witness ==
    /\ pc["A"] = "committed" /\ ctx["A"].response = "yes"
    /\ db # hist["A"].pre
    /\ pc["B"] = "rolledback" /\ ctx["B"].response = ""

(* C8: the staging rows a run's merge statements read are the rows that    *)
(* run staged.                                                             *)
C8_OwnStagingOnly ==
    \A r \in Runs : \A rows \in hist[r].read : rows = hist[r].staged

(* C9: when the loader is run again on the same file after a commit, with  *)
(* prefer_non_null on every column and prefer_non_null or extend on the    *)
(* association, the second merge inserts no entity row, changes no column  *)
(* the policy covers, inserts and deletes no association, and reports zero *)
(* new rows, zero column changes and zero new or deleted associations.     *)
C9_Idempotent ==
    (/\ pc["A"] = "committed" /\ pc["B"] = "executed"
     /\ cfg["B"] = [cfg["A"] EXCEPT !.ts = cfg["B"].ts]
     /\ \A c \in DOMAIN cfg["B"].policy[cfg["B"].entity] \ {"artists"} :
           cfg["B"].policy[cfg["B"].entity][c] = "prefer_non_null"
     /\ HasArtistColumn(cfg["B"].entity, cfg["B"].cols) =>
           AssocMode("B") \in {"prefer_non_null", "extend"}) =>
        LET e == cfg["B"].entity
            report == ctx["B"].stats
        IN  /\ {m.id : m \in tx[e]} = {m.id : m \in db[e]}
            /\ \A m \in tx[e] : \E o \in db[e] :
                  /\ o.id = m.id /\ o.name = m.name
                  /\ o.spotify_uri = m.spotify_uri /\ o.album_id = m.album_id
            /\ \A n \in AssocTables : tx[n] = db[n]
            /\ ctx["B"].final.new_rows = 0
            /\ \A c \in DOMAIN report.column_changes : report.column_changes[c] = 0
            /\ \A k \in 1..Len(report.association_stats) :
                  /\ report.association_stats[k].new_associations = 0
                  /\ report.association_stats[k].deleted_associations = 0

(* C10: a run whose batch has a column without an entry in the entity's    *)
(* column policy ends planning on a configuration error.                   *)
C10_MissingColumnPolicyFails ==
    \A r \in Runs :
        \A c \in cfg[r].cols \cap {"name", "spotify_uri", "album_spotify_uri"} :
            (/\ HasEntityPolicy(cfg[r].entity, cfg[r].policy)
             /\ c \notin DOMAIN cfg[r].policy[cfg[r].entity]
             /\ pc[r] \notin {"waiting", "start", "staged", "begun"}) =>
                ctx[r].error = "ValueError"

(* Run r has been through the planning of its merge *)
Planned(r) == pc[r] \notin {"waiting", "start", "staged", "begun"}

UnknownColumnMode(r) ==
    /\ HasEntityPolicy(cfg[r].entity, cfg[r].policy)
    /\ \E c \in (DOMAIN cfg[r].policy[cfg[r].entity]) \cap cfg[r].cols :
          cfg[r].policy[cfg[r].entity][c] \notin ColumnModes

UnknownAssocMode(r) ==
    /\ HasEntityPolicy(cfg[r].entity, cfg[r].policy)
    /\ HasArtistColumn(cfg[r].entity, cfg[r].cols)
    /\ "artists" \in DOMAIN cfg[r].policy[cfg[r].entity]
    /\ cfg[r].policy[cfg[r].entity]["artists"] \notin AssocModes

(* C11: a run whose policy names an unrecognized mode, for a column of the *)
(* batch or for the association, ends its planning on a configuration      *)
(* error.                                                                  *)
C11_UnknownModeFails ==
    \A r \in Runs :
        ((UnknownColumnMode(r) \/ UnknownAssocMode(r)) /\ Planned(r)) =>
            ctx[r].error = "ValueError"

(* C12: when the first run ends on a configuration error, no database      *)
(* state has changed: the main tables are those found at its start and no  *)
(* staging relation has been created or loaded.                            *)
C12_ConfigErrorBeforeAnyStatement ==
    ctx["A"].error = "ValueError" =>
        /\ db = hist["A"].pre
        /\ tx = hist["A"].pre
        /\ staging = NoStaging

(* C13: the exception that ends a run whose statement failed is a          *)
(* MergeExecutionError.                                                    *)
C13_MergeExecutionError ==
    \A r \in Runs :
        (pc[r] = "rolledback" /\ ctx[r].error \notin {NULL, "ValueError"}) =>
            ctx[r].error = "MergeExecutionError"

(* The mode the policy of run r gives for the name column, NULL if none *)
NamePolicy(r) ==
    IF HasEntityPolicy(cfg[r].entity, cfg[r].policy)
    THEN Get(cfg[r].policy[cfg[r].entity], "name", NULL)
    ELSE NULL

(* The pairs (stored row before the merge, batch row) the upsert matches *)
Conflicts(r) ==
    {p \in db[cfg[r].entity] \X cfg[r].csv :
        p[2]["spotify_uri"] # NULL /\ p[1].spotify_uri = p[2]["spotify_uri"]}

NameAfter(r, o) == (CHOOSE m \in tx[cfg[r].entity] : m.id = o.id).name

(* C14: under prefer_longer on name, once the merge has executed, a        *)
(* matched row's name is the longer of the stored and the incoming name,   *)
(* and the incoming name when both have the same length (both non-null).   *)
C14_PreferLongerTieIncoming ==
    \A r \in Runs :
        (Finished(r) /\ NamePolicy(r) = "prefer_longer") =>
            \A p \in Conflicts(r) :
                (p[1].name # NULL /\ p[2]["name"] # NULL) =>
                    NameAfter(r, p[1]) =
                        IF Len(p[2]["name"]) >= Len(p[1].name) THEN p[2]["name"] ELSE p[1].name

(* C15: under prefer_incoming on name, once the merge has executed, a      *)
(* matched row's name is the incoming name, null included.                 *)
C15_PreferIncomingOverwrites ==
    \A r \in Runs :
        (Finished(r) /\ NamePolicy(r) = "prefer_incoming") =>
            \A p \in Conflicts(r) : NameAfter(r, p[1]) = p[2]["name"]

C15_Witness ==
    /\ Finished("A")
    /\ NamePolicy("A") = "prefer_incoming"
    /\ \E p \in Conflicts("A") :
          p[1].name = "Alpha" /\ p[2]["name"] = NULL /\ NameAfter("A", p[1]) = NULL

(* C16: under prefer_non_null on name, once the merge has executed, a      *)
(* matched row keeps its name when it had one and has the incoming name    *)
(* when it had none.                                                       *)
C16_PreferNonNullKeeps ==
    \A r \in Runs :
        (Finished(r) /\ NamePolicy(r) = "prefer_non_null") =>
            \A p \in Conflicts(r) :
                NameAfter(r, p[1]) = IF p[1].name # NULL THEN p[1].name ELSE p[2]["name"]

C16_Witness ==
    /\ Finished("A")
    /\ NamePolicy("A") = "prefer_non_null"
    /\ \E p \in Conflicts("A") :
          p[1].name = NULL /\ p[2]["name"] = "Beta" /\ NameAfter("A", p[1]) = "Beta"
    /\ pc["B"] = "waiting"

(* The upsert of run r has executed *)
UpsertDone(r) ==
    /\ pc[r] \in {"executing", "executed"}
    /\ \E k \in 1..Len(ctx[r].merge_sql) : k < ctx[r].i /\ ctx[r].merge_sql[k].op = "upsert"

(* C17: once the upsert of a run has executed, every row of the entity     *)
(* table that a batch row with an identifier matched or inserted carries   *)
(* the run's source label and timestamp.                                   *)
C17_ProvenanceStamped ==
    \A r \in Runs :
        UpsertDone(r) =>
            \A s \in cfg[r].csv :
                s["spotify_uri"] # NULL =>
                    \E m \in tx[cfg[r].entity] :
                        /\ m.spotify_uri = s["spotify_uri"]
                        /\ m.source_name = cfg[r].source
                        /\ m.ingested_at = cfg[r].ts

C17_Witness ==
    /\ UpsertDone("B")
    /\ \E o \in db["artists"], m \in tx["artists"] :
          /\ o.spotify_uri = "X" /\ m.spotify_uri = "X"
          /\ o.name = m.name /\ m.name = "Alpha"
          /\ o.ingested_at = "tA" /\ m.ingested_at = "tB"
    /\ \E m \in tx["artists"] : m.spotify_uri = "W" /\ m.ingested_at = "tB"

(* C19: every row of the artists, albums and tracks tables, committed or   *)
(* inside a transaction, has an identifier.                                *)
C19_IdentifierInvariant ==
    \A n \in EntityTables : \A m \in db[n] \cup tx[n] : m.spotify_uri # NULL

C19_Witness ==
    /\ pc["A"] = "committed"
    /\ \E s \in cfg["A"].csv : s["spotify_uri"] = NULL /\ s["name"] = "Gamma"
    /\ Cardinality(db["tracks"]) = 1
    /\ HasRow(db, "albums", "A1") /\ HasRow(db, "artists", "Z")
    /\ pc["B"] = "rolledback"

(* The next statement of run r is the upsert, or the upsert has executed *)
AtOrPastUpsert(r) ==
    /\ pc[r] \in {"executing", "executed"}
    /\ \E k \in 1..Len(ctx[r].merge_sql) : k <= ctx[r].i /\ ctx[r].merge_sql[k].op = "upsert"

(* The non-empty album identifiers the batch of run r references *)
AlbumRefs(r) ==
    {s["album_spotify_uri"] : s \in cfg[r].csv} \ {NULL, ""}

(* C18: when the track upsert of a run is about to execute, and from then  *)
(* on, the albums table is the table found at the run's start plus exactly *)
(* one placeholder (null name, the run's provenance) for each distinct     *)
(* non-empty album identifier of the batch that the table did not have.    *)
C18_ReferentialCompletion ==
    \A r \in Runs :
        (AtOrPastUpsert(r) /\ cfg[r].entity = "tracks") =>
            LET absent == {u \in AlbumRefs(r) : ~HasRow(db, "albums", u)}
            IN  /\ tx["albums"] =
                     db["albums"] \cup {Row(u, NULL, NULL, cfg[r].source, cfg[r].ts) : u \in absent}
                /\ Cardinality(tx["albums"]) = Cardinality(db["albums"]) + Cardinality(absent)
                /\ \A u \in AlbumRefs(r) :
                      Cardinality({m \in tx["albums"] : m.spotify_uri = u}) = 1

C18_Witness ==
    /\ pc["A"] = "executing"
    /\ ctx["A"].merge_sql[ctx["A"].i].op = "upsert"
    /\ Cardinality(cfg["A"].csv) = 2
    /\ \A s \in cfg["A"].csv : s["album_spotify_uri"] = "A2"
    /\ db["albums"] = {Row("A1", "Aone", NULL, "SEED", "t0")}
    /\ tx["albums"] = {Row("A1", "Aone", NULL, "SEED", "t0"), Row("A2", NULL, NULL, "MPD", "tA")}
    /\ ~HasRow(tx, "tracks", "t2")

(* No two rows of a set of associations have the same owning entity and    *)
(* the same artist, or the same owning entity and the same position        *)
WellFormedLinks(links) ==
    \A l1, l2 \in links :
        (/\ l1.entity_id = l2.entity_id
         /\ (l1.artist_id = l2.artist_id \/ l1.position = l2.position)) => l1 = l2

(* C20: in the committed tables and inside every transaction, an           *)
(* association table has at most one row per (owning entity, artist) and   *)
(* no two associations of an owning entity have the same position.         *)
C20_AssociationsWellFormed ==
    \A n \in AssocTables : WellFormedLinks(db[n]) /\ WellFormedLinks(tx[n])

C20_Witness ==
    /\ pc["A"] = "committed" /\ pc["B"] = "committed"
    /\ AssocMode("A") = "prefer_incoming" /\ AssocMode("B") = "extend"
    /\ hist["A"].pre["track_artists"] = {Link(NewId("t1"), NewId("X"), 0)}
    /\ hist["B"].pre["track_artists"] =
          {Link(NewId("t1"), NewId("Y"), 0), Link(NewId("t1"), NewId("Z"), 1)}
    /\ db["track_artists"] =
          {Link(NewId("t1"), NewId("Y"), 0), Link(NewId("t1"), NewId("Z"), 1),
           Link(NewId("t1"), NewId("X"), 2)}

Ids(rows) == {m.id : m \in rows}

(* C21: every artist, album and track row that was in the database when a  *)
(* run started is in the committed tables and in every transaction from    *)
(* then on, so that no entity table has fewer rows than at the run's start *)
C21_NeverDeletesEntity ==
    \A r \in Runs :
        hist[r].pre # <<>> =>
            \A n \in EntityTables :
                /\ Ids(hist[r].pre[n]) \subseteq Ids(db[n])
                /\ Ids(hist[r].pre[n]) \subseteq Ids(tx[n])
                /\ Ids(db[n]) \subseteq Ids(tx[n])
                /\ Cardinality(db[n]) >= Cardinality(hist[r].pre[n])
                /\ Cardinality(tx[n]) >= Cardinality(db[n])

C21_Witness ==
    /\ pc["A"] = "committed" /\ pc["B"] = "committed"
    /\ AssocMode("A") = "prefer_incoming"
    /\ hist["A"].pre["track_artists"] = {Link(NewId("t1"), NewId("X"), 0)}
    /\ db["track_artists"] = {Link(NewId("t1"), NewId("Z"), 0)}
    /\ Ids(db["artists"]) = {NewId("X"), NewId("Z")}
    /\ Ids(db["tracks"]) = {NewId("t1"), NewId("t2")}
    /\ Ids(db["albums"]) = {NewId("A1")}

(* C28: under replace, once the merge has executed, an owning entity whose *)
(* batch row has a null artist list, an empty text or the encoding of a    *)
(* list with no elements has the associations it had, at their positions.  *)
C28_ReplaceKeepsOnEmptyList ==
    \A r \in Runs :
        (Finished(r) /\ AssocMode(r) = "prefer_incoming") =>
            \A s \in cfg[r].csv :
                (/\ s["spotify_uri"] # NULL
                 /\ s["artist_spotify_uris"] \in {NullText, <<>>, PgArrayText(<<>>)}
                 /\ HasRow(db, cfg[r].entity, s["spotify_uri"])) =>
                    LET eid == IdOf(db, cfg[r].entity, s["spotify_uri"])
                    IN  LinksOf(tx, cfg[r].entity, eid) = LinksOf(db, cfg[r].entity, eid)

ExpectedPlan(r) ==
    LET e == cfg[r].entity
        cols == cfg[r].cols
    IN  (IF e = "tracks" /\ "album_spotify_uri" \in cols THEN <<"missing_albums">> ELSE <<>>)
        \o (IF e \in {"albums", "tracks"} /\ "artist_spotify_uris" \in cols
            THEN <<"missing_artists">> ELSE <<>>)
        \o <<"upsert">>
        \o (IF e \in {"albums", "tracks"} /\ "artist_spotify_uris" \in cols
            THEN <<"associations">> ELSE <<>>)

Kinds(sql) == [k \in 1..Len(sql) |-> sql[k].op]

(* C26: the plan of a run is: placeholder albums (tracks with an album     *)
(* reference column), placeholder artists (albums and tracks with an       *)
(* artist list column), the upsert, the associations (albums and tracks    *)
(* with an artist list column), in this order and each once; execution     *)
(* starts at the first statement and each step executes the next one.      *)
C26_OperationOrder ==
    [][\A r \in Runs :
          /\ (pc'[r] \in {"planned", "executing", "executed", "committed"}) =>
                Kinds(ctx'[r].merge_sql) = ExpectedPlan(r)
          /\ (pc[r] = "planned" /\ pc'[r] = "executing") => ctx'[r].i = 1
          /\ (pc[r] = "executing" /\ ctx'[r].i # ctx[r].i) =>
                /\ ctx'[r].i = ctx[r].i + 1
                /\ tx' = Execute(ctx[r].merge_sql[ctx[r].i], cfg[r].entity, cfg[r].cols,
                                 staging[StagingTable(cfg[r].entity)].rows, tx,
                                 cfg[r].source, cfg[r].ts).t
          /\ (pc'[r] = "executed" /\ pc[r] # "executed") =>
                ctx[r].i = Len(ctx[r].merge_sql) + 1
      ]_vars

C26_Witness ==
    /\ pc["A"] = "executed"
    /\ cfg["A"].entity = "tracks"
    /\ Kinds(ctx["A"].merge_sql) = <<"missing_albums", "missing_artists", "upsert", "associations">>
    /\ Cardinality(tx["track_artists"]) = 2
    /\ HasRow(tx, "albums", "A1")

(* The statement loop of the dry run, from statement k on: the tables      *)
(* after the last statement, or the failure of the first that fails        *)
RECURSIVE RunMerge(_, _, _, _, _, _, _, _)
RunMerge(sql, k, entity, cols, stg, t, source, ts) ==
    IF k > Len(sql) THEN Ok(t)
    ELSE LET res == Execute(sql[k], entity, cols, stg, t, source, ts)
         IN  IF res.ok THEN RunMerge(sql, k + 1, entity, cols, stg, res.t, source, ts)
             ELSE Raise(t)

NullIdRows(r) == {s \in cfg[r].csv : s["spotify_uri"] = NULL}

(* The merge of run r on its batch without the rows that have no identifier *)
MergeWithoutNullIds(r) ==
    RunMerge(ctx[r].merge_sql, 1, cfg[r].entity, cfg[r].cols,
             cfg[r].csv \ NullIdRows(r), db, cfg[r].source, cfg[r].ts)

(* The artist identifiers the rows without identifier list *)
NullIdArtistRefs(r) ==
    UNION {{ap.artist_uri : ap \in ArtistPos(s["artist_spotify_uris"])} :
              s \in {x \in NullIdRows(r) : HasArtistText(x)}}

(* C27 as stated: a batch with a row that has no identifier fails only if  *)
(* the batch without it fails, and once the merge has executed every       *)
(* table is what the merge of the batch without that row gives.            *)
C27_NullIdRowAsIfAbsent ==
    \A r \in Runs :
        NullIdRows(r) # {} =>
            /\ (pc[r] = "rolledback" /\ ctx[r].error = "UniqueViolation") =>
                  ~MergeWithoutNullIds(r).ok
            /\ Finished(r) => tx = MergeWithoutNullIds(r).t

(* C27 amended: a batch with a row that has no identifier fails only if    *)
(* the batch without it fails, and once the merge has executed the entity  *)
(* table and the association tables are what the merge of the batch        *)
(* without that row gives; the artists and albums tables have in addition  *)
(* only placeholders for the identifiers that row references.              *)
C27_NullIdRowLeftOutOfUpsert ==
    \A r \in Runs :
        NullIdRows(r) # {} =>
            /\ (pc[r] = "rolledback" /\ ctx[r].error = "UniqueViolation") =>
                  ~MergeWithoutNullIds(r).ok
            /\ Finished(r) =>
                  LET without == MergeWithoutNullIds(r).t
                  IN  /\ tx[cfg[r].entity] = without[cfg[r].entity]
                      /\ \A n \in AssocTables : tx[n] = without[n]
                      /\ \A n \in EntityTables \ {cfg[r].entity} :
                            /\ without[n] \subseteq tx[n]
                            /\ \A m \in tx[n] \ without[n] :
                                  /\ m = Row(m.spotify_uri, NULL, NULL, cfg[r].source, cfg[r].ts)
                                  /\ \E s \in NullIdRows(r) :
                                        \/ n = "albums" /\ m.spotify_uri = s["album_spotify_uri"]
                                        \/ n = "artists" /\ m.spotify_uri \in NullIdArtistRefs(r)

C27_Witness ==
    /\ Finished("A")
    /\ \E s \in NullIdRows("A") : s["artist_spotify_uris"] = PgArrayText(<<"Y">>)
    /\ ~HasRow(db, "artists", "Y")
    /\ HasRow(tx, "artists", "Y")
    /\ ~HasRow(MergeWithoutNullIds("A").t, "artists", "Y")
    /\ Ids(tx["tracks"]) = {NewId("t1")}
    /\ \E m \in tx["tracks"] : m.ingested_at = "tA"

(* The batch of run r has a row with this identifier *)
InBatch(r, uri) == \E s \in cfg[r].csv : s["spotify_uri"] # NULL /\ s["spotify_uri"] = uri

OwnerInBatch(r, l) ==
    \E m \in tx[cfg[r].entity] : m.id = l.entity_id /\ InBatch(r, m.spotify_uri)

(* C30: once the merge of a run has executed, every row of the entity      *)
(* table whose identifier is not in the batch is as it was, every artist   *)
(* and album row that existed is as it was, and the associations of the    *)
(* owning entities that are not in the batch are as they were.             *)
C30_Frame ==
    \A r \in Runs :
        Finished(r) =>
            /\ \A m \in db[cfg[r].entity] : ~InBatch(r, m.spotify_uri) => m \in tx[cfg[r].entity]
            /\ \A n \in EntityTables \ {cfg[r].entity} : db[n] \subseteq tx[n]
            /\ \A n \in AssocTables \ {AssocTable(cfg[r].entity)} : tx[n] = db[n]
            /\ {l \in db[AssocTable(cfg[r].entity)] : ~OwnerInBatch(r, l)}
                 = {l \in tx[AssocTable(cfg[r].entity)] : ~OwnerInBatch(r, l)}

C30_Witness ==
    /\ Finished("A")
    /\ AssocMode("A") = "prefer_incoming"
    /\ LinksOf(db, "tracks", NewId("t1")) = {Link(NewId("t1"), NewId("X"), 0)}
    /\ LinksOf(tx, "tracks", NewId("t1")) =
          {Link(NewId("t1"), NewId("Y"), 0), Link(NewId("t1"), NewId("Z"), 1)}
    /\ LinksOf(tx, "tracks", NewId("t3")) =
          {Link(NewId("t3"), NewId("X"), 0), Link(NewId("t3"), NewId("Y"), 1)}
    /\ Row("t3", "Other", NewId("A1"), "SEED", "t0") \in tx["tracks"]
    /\ Row("Y", "Yn", NULL, "SEED", "t0") \in tx["artists"]
    /\ HasRow(tx, "artists", "Z") /\ HasRow(tx, "albums", "A2") /\ HasRow(tx, "tracks", "t2")

-----------------------------------------------------------------------------
(* The (entity, artist) pairs of an association table *)
Pairs(links) == {<<l.entity_id, l.artist_id>> : l \in links}

(* The association report of run r, once its merge has executed *)
Reported(r) ==
    /\ pc[r] = "executed"
    /\ Len(ctx[r].stats.association_stats) > 0

(* C22: once the merge of a run has executed, the reported new_associations *)
(* is the number of (entity, artist) pairs present after the merge and      *)
(* absent before it, the reported deleted_associations is the number        *)
(* present before and absent after, and new minus deleted is the row-count  *)
(* delta of the association table.                                          *)
C22_AssociationCountsExact ==
    \A r \in Runs :
        Reported(r) =>
            LET a == ctx[r].stats.association_stats[1]
                before == hist[r].pre[a.table_name]
                after == tx[a.table_name]
            IN  /\ a.new_associations = Cardinality(Pairs(after) \ Pairs(before))
                /\ a.deleted_associations = Cardinality(Pairs(before) \ Pairs(after))
                /\ a.new_associations - a.deleted_associations
                       = Cardinality(after) - Cardinality(before)

(* C23: once the merge of a run has executed, the analyzers that predict    *)
(* the merge, applied to the same staging rows and to the tables as they    *)
(* were before it, give the counts the dry run reports: new rows,           *)
(* pre-existing rows, and new, recreated and deleted associations.          *)
C23_PredictionEqualsDryRun ==
    \A r \in Runs :
        pc[r] = "executed" =>
            LET c == cfg[r]
                stg == staging[StagingTable(c.entity)].rows
                pred == PredictedAssociationStats(c.entity, c.cols, stg, hist[r].pre)
                dry == ctx[r].stats.association_stats
            IN  /\ CountNewRows(c.entity, c.cols, stg, hist[r].pre) = ctx[r].final.new_rows
                /\ CountExistingRows(c.entity, c.cols, stg, hist[r].pre)
                       = ctx[r].final.existing_rows
                /\ Len(pred) = Len(dry)
                /\ \A k \in 1..Len(pred) :
                       /\ pred[k].new_associations = dry[k].new_associations
                       /\ pred[k].recreated_associations = dry[k].recreated_associations
                       /\ pred[k].deleted_associations = dry[k].deleted_associations

-----------------------------------------------------------------------------
(* The statements of a plan that create missing referenced entities *)
PlaceholderSteps(sql) ==
    SelectSeq(sql, LAMBDA st : st.op \in {"missing_albums", "missing_artists"})

(* The ids of the rows those statements of run r add to table n *)
Placeholders(r, n) ==
    LET c == cfg[r]
        res == RunMerge(PlaceholderSteps(ctx[r].merge_sql), 1, c.entity, c.cols,
                        staging[StagingTable(c.entity)].rows, hist[r].pre,
                        c.source, c.ts)
    IN  Ids(res.t[n]) \ Ids(hist[r].pre[n])

(* The side-effect creation count run r reports for table n *)
SideEffectCount(r, n) ==
    LET e == {x \in ctx[r].final.side_effect_creation : x.entity_type = n}
    IN  IF e = {} THEN 0 ELSE (CHOOSE x \in e : TRUE).new_entities

(* C24: once the merge of a run has executed, the side-effect creation      *)
(* count it reports for artists, and for albums, is the number of rows the  *)
(* create-missing-referenced-entities statements of the run added to that   *)
(* table; rows inserted by the batch's own upsert are not counted.          *)
C24_SideEffectsArePlaceholders ==
    \A r \in Runs :
        pc[r] = "executed" =>
            \A n \in {"artists", "albums"} :
                SideEffectCount(r, n) = Cardinality(Placeholders(r, n))

-----------------------------------------------------------------------------
(* The canonical column a CSV column is stored in *)
TargetColumn(entity, col) ==
    IF entity = "tracks" /\ col = "album_spotify_uri" THEN "album_id" ELSE col

(* The rows of run r's entity that were there before the merge and whose   *)
(* stored value in the column of col is different after it                 *)
AlteredRows(r, col) ==
    LET e == cfg[r].entity
    IN  {m \in hist[r].pre[e] :
            \E n \in tx[e] :
                /\ n.id = m.id
                /\ n[TargetColumn(e, col)] # m[TargetColumn(e, col)]}

(* The columns of run r that the policy covers with one of the two counted *)
(* modes                                                                   *)
CountedColumns(r) ==
    LET c == cfg[r]
    IN  {col \in (c.cols \cap DOMAIN c.policy[c.entity]) \ {"artists", "artist_spotify_uris"} :
            c.policy[c.entity][col] \in {"prefer_incoming", "prefer_non_null"}}

(* C25: once the merge of a run has executed, for every column the policy  *)
(* covers with prefer_incoming or prefer_non_null (a track's album         *)
(* reference included), the reported change count of the column is the     *)
(* number of pre-existing rows whose stored value in it the merge altered. *)
C25_ColumnCountsExact ==
    \A r \in Runs :
        pc[r] = "executed" /\ HasEntityPolicy(cfg[r].entity, cfg[r].policy) =>
            \A col \in CountedColumns(r) :
                Get(ctx[r].stats.column_changes, col, 0) = Cardinality(AlteredRows(r, col))

====
